---------------------------- MODULE Spec2Model ----------------------------
(***************************************************************************)
(* WorkHoursInsights (main.py): the WorkDay record and its validation, the *)
(* WorkHistory aggregate, the JSON loader parse_work_json_data and the     *)
(* CSV converter convert_csv_data_to_json.                                 *)
(*                                                                         *)
(* Python values are modelled as follows.                                  *)
(*   None / an optional value     << >> / << v >>                          *)
(*   datetime.date                [year, month, day]                       *)
(*   datetime.time                seconds since midnight (microsecond 0)   *)
(*   datetime.datetime            [date, time]                             *)
(*   datetime.timedelta           [seconds, microseconds], normalised      *)
(*   a formatted or parsed str    a sequence of one-character strings      *)
(*   dict                         a function whose domain is its key set   *)
(*   an exception                 [type, msg, explicit]; explicit is TRUE  *)
(*                                for a raise statement of main.py, FALSE  *)
(*                                for one raised by the interpreter        *)
(***************************************************************************)
EXTENDS Integers, Sequences, FiniteSets, TLC

---------------------------------------------------------------------------
(* Bounds of the model *)

\* longest history handed to WorkHistory
MaxDays == 3
\* longest arbitrary CSV file
MaxRows == 4
\* most day-groups in a well-formed CSV file
MaxGroups == 2

---------------------------------------------------------------------------
(* Optional values *)

None == << >>

Some(v) == << v >>

IsNone(o) == o = << >>

Val(o) == o[1]

---------------------------------------------------------------------------
(* Exceptions *)

NoExc == [type |-> "none", msg |-> "", explicit |-> FALSE]

EndBeforeStart ==
    [type |-> "ValueError", msg |-> "End must come after start", explicit |-> TRUE]

MalformedLunchPair ==
    [type |-> "ValueError", msg |-> "Both lunch start and end must be specified",
     explicit |-> TRUE]

LunchBeforeDayStart ==
    [type |-> "ValueError", msg |-> "Lunch started before day started", explicit |-> TRUE]

LunchAfterDayEnd ==
    [type |-> "ValueError", msg |-> "Lunch started after day ended", explicit |-> TRUE]

LunchEndBeforeLunchStart ==
    [type |-> "ValueError", msg |-> "Lunch ended before it started", explicit |-> TRUE]

LunchEndAfterDayEnd ==
    [type |-> "ValueError", msg |-> "Lunch ended after the day ended", explicit |-> TRUE]

\* timedelta / 0
ZeroDivisionError ==
    [type |-> "ZeroDivisionError", msg |-> "integer division or modulo by zero",
     explicit |-> FALSE]

\* None.strftime(...)
AttributeError ==
    [type |-> "AttributeError", msg |-> "'NoneType' object has no attribute 'strftime'",
     explicit |-> FALSE]

\* day[key] with key absent
KeyError(key) == [type |-> "KeyError", msg |-> key, explicit |-> FALSE]

---------------------------------------------------------------------------
(* datetime arithmetic *)

SecondsPerDay == 86400

MicrosPerSecond == 1000000

\* datetime.time(hour, minute, second)
Time(hour, minute, second) == (hour * 60 + minute) * 60 + second

\* date.toordinal(): days since 0001-01-01, that day being 1
Ordinal(date) ==
    LET y   == IF date.month <= 2 THEN date.year - 1 ELSE date.year
        era == y \div 400
        yoe == y - era * 400
        mp  == IF date.month > 2 THEN date.month - 3 ELSE date.month + 9
        doy == (153 * mp + 2) \div 5 + date.day - 1
        doe == yoe * 365 + yoe \div 4 - yoe \div 100 + doy
    IN  era * 146097 + doe - 305

\* date.fromordinal(n)
DateFromOrdinal(n) ==
    LET z   == n + 305
        era == z \div 146097
        doe == z - era * 146097
        yoe == (doe - doe \div 1460 + doe \div 36524 - doe \div 146096) \div 365
        doy == doe - (365 * yoe + yoe \div 4 - yoe \div 100)
        mp  == (5 * doy + 2) \div 153
        d   == doy - (153 * mp + 2) \div 5 + 1
        m   == IF mp < 10 THEN mp + 3 ELSE mp - 9
        y   == yoe + era * 400
    IN  [year |-> IF m <= 2 THEN y + 1 ELSE y, month |-> m, day |-> d]

\* datetime.combine(date, time)
Combine(date, time) == [date |-> date, time |-> time]

\* datetime < datetime
DtLess(a, b) ==
    \/ Ordinal(a.date) < Ordinal(b.date)
    \/ Ordinal(a.date) = Ordinal(b.date) /\ a.time < b.time

\* timedelta(seconds=s, microseconds=us), normalised to 0 <= microseconds < 10^6
Timedelta(s, us) ==
    [seconds |-> s + us \div MicrosPerSecond, microseconds |-> us % MicrosPerSecond]

\* datetime - datetime
DtSub(a, b) ==
    Timedelta((Ordinal(a.date) - Ordinal(b.date)) * SecondsPerDay + a.time - b.time, 0)

\* timedelta + timedelta
TdAdd(a, b) == Timedelta(a.seconds + b.seconds, a.microseconds + b.microseconds)

\* timedelta - timedelta
TdSub(a, b) == Timedelta(a.seconds - b.seconds, a.microseconds - b.microseconds)

\* round-half-even of num / den, den > 0, num >= 0
DivRoundHalfEven(num, den) ==
    LET q == num \div den
        r == num % den
    IN  IF 2 * r > den \/ (2 * r = den /\ q % 2 = 1) THEN q + 1 ELSE q

\* timedelta / int for n > 0: the quotient rounded to the nearest microsecond
TdDiv(td, n) ==
    Timedelta(td.seconds \div n,
              DivRoundHalfEven((td.seconds % n) * MicrosPerSecond + td.microseconds, n))


---------------------------------------------------------------------------
(* State *)

VARIABLES
    wd_args,     \* arguments of the last WorkDay(...) call, or None
    wd,          \* the WorkDay object that call constructed, or None
    hist,        \* the WorkHistory object, or None
    last,        \* name of the last operation performed
    ret,         \* value the last operation returned, or None
    exc,         \* exception the last operation raised, or NoExc
    csv_file_in, \* rows of the CSV file given to the converter
    row_idx,     \* number of rows the converter's loop has consumed
    t_start,     \* converter slot: time of the group's "Work Start", or None
    t_l_start,   \* converter slot: time of the group's "Lunch Start", or None
    t_l_end,     \* converter slot: time of the group's "Lunch End", or None
    t_end,       \* converter slot: time of the group's end row, or None
    dict_list,   \* day entries the converter has appended so far
    pc,          \* position of the batch run (see the converter below)
    file_out,    \* content of the JSON file the converter wrote, or None
    all_days     \* list of WorkDay objects the loader returned, or None

dayVars == <<wd_args, wd>>

histVars == <<hist>>

convVars == <<csv_file_in, row_idx, t_start, t_l_start, t_l_end, t_end,
              dict_list, pc, file_out, all_days>>

vars == <<wd_args, wd, hist, last, ret, exc, csv_file_in, row_idx, t_start,
          t_l_start, t_l_end, t_end, dict_list, pc, file_out, all_days>>

\* the parts of the state a specification does not exercise
DayIdle == wd_args = None /\ wd = None

HistIdle == hist = None

ConvIdle ==
    /\ csv_file_in = << >>
    /\ row_idx = 0
    /\ t_start = None /\ t_l_start = None /\ t_l_end = None /\ t_end = None
    /\ dict_list = << >>
    /\ pc = "idle"
    /\ file_out = None
    /\ all_days = None

---------------------------------------------------------------------------
(* class WorkDay *)

\* outcome of a call: the value returned, or the exception raised
Return(v) == [val |-> Some(v), exc |-> NoExc]

Raise(e) == [val |-> None, exc |-> e]

\* mutant of EndAfterStart: equal times accepted
EndAfterStart_AllowsEqual(start, end) == end >= start

\* the test `end > start` on the two time-of-day arguments
EndAfterStart(start, end) == end > start

\* mutant of LunchCheck: the third check made before the second
LunchCheck_Reordered(self_start, self_end, lunch_start, lunch_end) ==
    IF DtLess(lunch_start, self_start) THEN LunchBeforeDayStart
    ELSE IF DtLess(lunch_end, lunch_start) THEN LunchEndBeforeLunchStart
    ELSE IF DtLess(self_end, lunch_start) THEN LunchAfterDayEnd
    ELSE IF DtLess(self_end, lunch_end) THEN LunchEndAfterDayEnd
    ELSE NoExc

\* the four boundary checks on the lunch datetimes, in source order:
\* the exception of the first one that fails, or NoExc
LunchCheck(self_start, self_end, lunch_start, lunch_end) ==
    IF DtLess(lunch_start, self_start) THEN LunchBeforeDayStart
    ELSE IF DtLess(self_end, lunch_start) THEN LunchAfterDayEnd
    ELSE IF DtLess(lunch_end, lunch_start) THEN LunchEndBeforeLunchStart
    ELSE IF DtLess(self_end, lunch_end) THEN LunchEndAfterDayEnd
    ELSE NoExc

\* WorkDay.__init__(date, start, end, lunch_start_end): lunch_start_end is None
\* or Some(tuple of times)
WorkDayInit(date, start, end, lunch_start_end) ==
    LET self_start == Combine(date, start)
        self_end   == Combine(date, end)
    IN  IF ~EndAfterStart(start, end) THEN Raise(EndBeforeStart)
        ELSE IF IsNone(lunch_start_end)
        THEN Return([date |-> date, start |-> self_start, end |-> self_end,
                     lunch_start |-> None, lunch_end |-> None])
        ELSE LET pair == Val(lunch_start_end)
             IN  IF Len(pair) # 2 THEN Raise(MalformedLunchPair)
                 ELSE LET lunch_start == Combine(date, pair[1])
                          lunch_end   == Combine(date, pair[2])
                          e == LunchCheck(self_start, self_end, lunch_start, lunch_end)
                      IN  IF e # NoExc THEN Raise(e)
                          ELSE Return([date |-> date, start |-> self_start,
                                       end |-> self_end,
                                       lunch_start |-> Some(lunch_start),
                                       lunch_end |-> Some(lunch_end)])

\* WorkDay.lunch_duration(self)
lunch_duration(self) ==
    IF IsNone(self.lunch_start) THEN Timedelta(0, 0)
    ELSE DtSub(Val(self.lunch_end), Val(self.lunch_start))

\* mutant of work_hours: the lunch break not deducted
work_hours_KeepsLunch(self) == DtSub(self.end, self.start)

\* WorkDay.work_hours(self)
work_hours(self) == TdSub(DtSub(self.end, self.start), lunch_duration(self))

---------------------------------------------------------------------------
(* Calls on a WorkDay *)

Dates == {[year |-> 2020, month |-> 1, day |-> 7], [year |-> 2018, month |-> 6, day |-> 19]}

Times == {Time(9, 15, 0), Time(12, 30, 0), Time(13, 30, 0), Time(17, 30, 0)}

\* lunch_start_end arguments: absent, every pair, and tuples of length 0, 1 and 3
LunchArgs ==
    {None}
    \cup {Some(<<a, b>>) : a \in Times, b \in Times}
    \cup {Some(<< >>), Some(<<Time(12, 30, 0)>>),
          Some(<<Time(12, 30, 0), Time(13, 30, 0), Time(13, 30, 0)>>)}

NewWorkDay ==
    \E date \in Dates, start \in Times, end \in Times, lunch_start_end \in LunchArgs :
        LET r == WorkDayInit(date, start, end, lunch_start_end)
        IN  /\ wd_args' = Some([date |-> date, start |-> start, end |-> end,
                                lunch_start_end |-> lunch_start_end])
            /\ wd' = r.val
            /\ exc' = r.exc
            /\ ret' = None
            /\ last' = "WorkDay"
            /\ UNCHANGED <<histVars, convVars>>

CallLunchDuration ==
    /\ ~IsNone(wd)
    /\ ret' = Some(lunch_duration(Val(wd)))
    /\ exc' = NoExc
    /\ last' = "lunch_duration"
    /\ UNCHANGED <<dayVars, histVars, convVars>>

CallWorkHours ==
    /\ ~IsNone(wd)
    /\ ret' = Some(work_hours(Val(wd)))
    /\ exc' = NoExc
    /\ last' = "work_hours"
    /\ UNCHANGED <<dayVars, histVars, convVars>>

InitWorkDay ==
    /\ DayIdle /\ HistIdle /\ ConvIdle
    /\ last = "none" /\ ret = None /\ exc = NoExc

NextWorkDay == NewWorkDay \/ CallLunchDuration \/ CallWorkHours

SpecWorkDay == InitWorkDay /\ [][NextWorkDay]_vars

---------------------------------------------------------------------------
(* class WorkHistory *)

\* the default allowed_leave, 38.5 days, in tenths of a day
DefaultAllowedLeave == 385

\* WorkHistory.__init__(work_days, allowed_leave)
WorkHistoryInit(work_days, allowed_leave) ==
    [all_days |-> work_days,
     allowed_leave |-> IF IsNone(allowed_leave) THEN DefaultAllowedLeave
                       ELSE Val(allowed_leave)]

\* WorkHistory.n_days
n_days(self) == Len(self.all_days)

\* mutant of TotHours: the first day left out of the total
RECURSIVE TotHours_SkipsFirst(_)
TotHours_SkipsFirst(days) ==
    IF Len(days) <= 1 THEN Timedelta(0, 0)
    ELSE TdAdd(TotHours_SkipsFirst(SubSeq(days, 1, Len(days) - 1)),
               work_hours(days[Len(days)]))

\* the loop `for day in self.all_days: tot_hours += day.work_hours()`,
\* started from timedelta(seconds=0)
RECURSIVE TotHours(_)
TotHours(days) ==
    IF days = << >> THEN Timedelta(0, 0)
    ELSE TdAdd(TotHours(SubSeq(days, 1, Len(days) - 1)),
               work_hours(days[Len(days)]))

\* mutant of average_work_duration: an empty history averages to zero
average_work_duration_ZeroOnEmpty(self) ==
    IF n_days(self) = 0 THEN Return(Timedelta(0, 0))
    ELSE Return(TdDiv(TotHours(self.all_days), n_days(self)))

\* WorkHistory.average_work_duration(self): the division is the last statement
\* and nothing tests n_days before it; timedelta / 0 raises ZeroDivisionError
average_work_duration(self) ==
    LET tot_hours == TotHours(self.all_days)
    IN  IF n_days(self) = 0 THEN Raise(ZeroDivisionError)
        ELSE Return(TdDiv(tot_hours, n_days(self)))

---------------------------------------------------------------------------
(* Calls on a WorkHistory *)

HistDate == [year |-> 2020, month |-> 1, day |-> 7]

HistTimes == {Time(9, 15, 0), Time(12, 30, 0), Time(17, 30, 1)}

\* the WorkDay objects that can be constructed from HistTimes
HistDays ==
    {Val(r.val) :
        r \in {x \in {WorkDayInit(HistDate, s, e, l) :
                        s \in HistTimes, e \in HistTimes,
                        l \in {None} \cup {Some(<<a, b>>) : a \in HistTimes, b \in HistTimes}} :
               x.exc = NoExc}}

WorkDayLists == UNION {[1..n -> HistDays] : n \in 0..MaxDays}

NewWorkHistory ==
    /\ IsNone(hist)
    /\ \E work_days \in WorkDayLists, allowed_leave \in {None, Some(250)} :
          hist' = Some(WorkHistoryInit(work_days, allowed_leave))
    /\ ret' = None
    /\ exc' = NoExc
    /\ last' = "WorkHistory"
    /\ UNCHANGED <<dayVars, convVars>>

CallNDays ==
    /\ ~IsNone(hist)
    /\ ret' = Some(n_days(Val(hist)))
    /\ exc' = NoExc
    /\ last' = "n_days"
    /\ UNCHANGED <<dayVars, histVars, convVars>>

CallAverageWorkDuration ==
    /\ ~IsNone(hist)
    /\ LET r == average_work_duration(Val(hist))
       IN  ret' = r.val /\ exc' = r.exc
    /\ last' = "average_work_duration"
    /\ UNCHANGED <<dayVars, histVars, convVars>>

InitWorkHistory ==
    /\ DayIdle /\ HistIdle /\ ConvIdle
    /\ last = "none" /\ ret = None /\ exc = NoExc

NextWorkHistory == NewWorkHistory \/ CallNDays \/ CallAverageWorkDuration

SpecWorkHistory == InitWorkHistory /\ [][NextWorkHistory]_vars

---------------------------------------------------------------------------
(* Strings: int(), strftime and strptime *)

Digits == <<"0", "1", "2", "3", "4", "5", "6", "7", "8", "9">>

IsDigit(c) == \E d \in 0..9 : Digits[d + 1] = c

DigitValue(c) == CHOOSE d \in 0..9 : Digits[d + 1] = c

\* int(str) on a string of decimal digits
RECURSIVE PyInt(_)
PyInt(str) ==
    IF Len(str) = 0 THEN 0
    ELSE 10 * PyInt(SubSeq(str, 1, Len(str) - 1)) + DigitValue(str[Len(str)])

\* a number below 100 as two digits, zero-padded (%H, %M, %d, %m)
TwoDigits(n) == <<Digits[(n \div 10) + 1], Digits[(n % 10) + 1]>>

\* a year from 1000 to 9999 as four digits (%Y)
FourDigits(n) == TwoDigits(n \div 100) \o TwoDigits(n % 100)

ValueError(msg) == [type |-> "ValueError", msg |-> msg, explicit |-> FALSE]

\* mutant of strftime_HM: the hour on the 12-hour clock (%I)
strftime_HM_TwelveHour(time) ==
    LET h == (time \div 3600) % 12
    IN  TwoDigits(IF h = 0 THEN 12 ELSE h) \o <<":">> \o TwoDigits((time \div 60) % 60)

\* time.strftime("%H:%M")
strftime_HM(time) ==
    TwoDigits(time \div 3600) \o <<":">> \o TwoDigits((time \div 60) % 60)

\* datetime.strptime(str, "%H:%M").time(), for the two-digit forms strftime writes
strptime_HM(str) ==
    IF /\ Len(str) = 5
       /\ IsDigit(str[1]) /\ IsDigit(str[2]) /\ str[3] = ":"
       /\ IsDigit(str[4]) /\ IsDigit(str[5])
       /\ PyInt(SubSeq(str, 1, 2)) <= 23
       /\ PyInt(SubSeq(str, 4, 5)) <= 59
    THEN Return(Time(PyInt(SubSeq(str, 1, 2)), PyInt(SubSeq(str, 4, 5)), 0))
    ELSE Raise(ValueError("time data does not match format '%H:%M'"))

\* date.strftime("%d/%m/%Y")
strftime_dmY(date) ==
    TwoDigits(date.day) \o <<"/">> \o TwoDigits(date.month) \o <<"/">>
        \o FourDigits(date.year)

\* a date datetime accepts: month 1..12 and the day within the month
ValidDate(date) ==
    /\ date.year >= 1 /\ date.month \in 1..12 /\ date.day >= 1
    /\ DateFromOrdinal(Ordinal(date)) = date

\* datetime.strptime(str, "%d/%m/%Y").date(), for the forms strftime writes
strptime_dmY(str) ==
    IF /\ Len(str) = 10
       /\ \A i \in {1, 2, 4, 5, 7, 8, 9, 10} : IsDigit(str[i])
       /\ str[3] = "/" /\ str[6] = "/"
       /\ ValidDate([year |-> PyInt(SubSeq(str, 7, 10)),
                     month |-> PyInt(SubSeq(str, 4, 5)),
                     day |-> PyInt(SubSeq(str, 1, 2))])
    THEN Return([year |-> PyInt(SubSeq(str, 7, 10)),
                 month |-> PyInt(SubSeq(str, 4, 5)),
                 day |-> PyInt(SubSeq(str, 1, 2))])
    ELSE Raise(ValueError("time data does not match format '%d/%m/%Y'"))

---------------------------------------------------------------------------
(* parse_work_json_data *)

\* the body of `for day in raw_data`: the WorkDay appended, or the exception
\* that leaves the loop. Only the KeyError of the two lunch lookups is caught.
ParseDay(day) ==
    IF "date" \notin DOMAIN day THEN Raise(KeyError("date"))
    ELSE LET date == strptime_dmY(day["date"]) IN
    IF date.exc # NoExc THEN Raise(date.exc)
    ELSE IF "start" \notin DOMAIN day THEN Raise(KeyError("start"))
    ELSE LET start == strptime_HM(day["start"]) IN
    IF start.exc # NoExc THEN Raise(start.exc)
    ELSE IF "end" \notin DOMAIN day THEN Raise(KeyError("end"))
    ELSE LET end == strptime_HM(day["end"]) IN
    IF end.exc # NoExc THEN Raise(end.exc)
    ELSE IF "lunch_start" \notin DOMAIN day
    THEN WorkDayInit(Val(date.val), Val(start.val), Val(end.val), None)
    ELSE LET lunch_start == strptime_HM(day["lunch_start"]) IN
    IF lunch_start.exc # NoExc THEN Raise(lunch_start.exc)
    ELSE IF "lunch_end" \notin DOMAIN day
    THEN WorkDayInit(Val(date.val), Val(start.val), Val(end.val), None)
    ELSE LET lunch_end == strptime_HM(day["lunch_end"]) IN
    IF lunch_end.exc # NoExc THEN Raise(lunch_end.exc)
    ELSE WorkDayInit(Val(date.val), Val(start.val), Val(end.val),
                     Some(<<Val(lunch_start.val), Val(lunch_end.val)>>))

\* the loop over raw_data[i..], days being the list appended to so far
RECURSIVE ParseFrom(_, _, _)
ParseFrom(raw_data, i, days) ==
    IF i > Len(raw_data) THEN Return(days)
    ELSE LET r == ParseDay(raw_data[i])
         IN  IF r.exc # NoExc THEN Raise(r.exc)
             ELSE ParseFrom(raw_data, i + 1, Append(days, Val(r.val)))

\* parse_work_json_data(filename), raw_data being the file's JSON array
parse_work_json_data(raw_data) == ParseFrom(raw_data, 1, << >>)

---------------------------------------------------------------------------
(* convert_csv_data_to_json *)

\* dtime(1899, 12, 30).toordinal()
EpochOrdinal == Ordinal([year |-> 1899, month |-> 12, day |-> 30])

\* (dtime(1899, 12, 30) + timedelta(days=int(row[2]))).date()
RowDate(row) == DateFromOrdinal(EpochOrdinal + PyInt(row.serial))

\* dtime(1900, 1, 1, hour=int(row[3]), minute=int(row[4])).time()
RowTime(row) == Time(PyInt(row.hour), PyInt(row.minute), 0)

\* d[k] = v on a dict
SetKey(d, k, v) == [x \in (DOMAIN d) \cup {k} |-> IF x = k THEN v ELSE d[x]]

\* the dict built for a group whose start slot is set: the two lunch keys are
\* added one by one, each when its own slot is set
DayDict(date, start, l_start, l_end, end) ==
    LET base == [date |-> strftime_dmY(date),
                 start |-> strftime_HM(Val(start)),
                 end |-> strftime_HM(Val(end))]
        with_l_start == IF ~IsNone(l_start)
                        THEN SetKey(base, "lunch_start", strftime_HM(Val(l_start)))
                        ELSE base
    IN  IF ~IsNone(l_end)
        THEN SetKey(with_l_start, "lunch_end", strftime_HM(Val(l_end)))
        ELSE with_l_start

\* one iteration of `for row in xls_data`
ConvertRow ==
    /\ pc = "convert"
    /\ row_idx < Len(csv_file_in)
    /\ row_idx' = row_idx + 1
    /\ LET row  == csv_file_in[row_idx + 1]
           date == RowDate(row)
           time == RowTime(row)
       IN  IF row.label = "Work Start"
           THEN /\ t_start' = Some(time)
                /\ UNCHANGED <<t_l_start, t_l_end, t_end, dict_list, pc, exc>>
           ELSE IF row.label = "Lunch Start"
           THEN /\ t_l_start' = Some(time)
                /\ UNCHANGED <<t_start, t_l_end, t_end, dict_list, pc, exc>>
           ELSE IF row.label = "Lunch End"
           THEN /\ t_l_end' = Some(time)
                /\ UNCHANGED <<t_start, t_l_start, t_end, dict_list, pc, exc>>
           ELSE IF IsNone(t_start)
           THEN \* t_end is assigned, then t_start.strftime raises
                /\ t_end' = Some(time)
                /\ exc' = AttributeError
                /\ pc' = "crashed"
                /\ UNCHANGED <<t_start, t_l_start, t_l_end, dict_list>>
           ELSE /\ dict_list' = Append(dict_list,
                                       DayDict(date, t_start, t_l_start, t_l_end, Some(time)))
                /\ t_start' = None /\ t_l_start' = None
                /\ t_l_end' = None /\ t_end' = None
                /\ UNCHANGED <<pc, exc>>
    /\ last' = "convert_csv_data_to_json"
    /\ UNCHANGED <<csv_file_in, file_out, all_days, ret, dayVars, histVars>>

\* the rows are exhausted: json.dump(dict_list, out_file), and the converter returns
WriteJson ==
    /\ pc = "convert"
    /\ row_idx = Len(csv_file_in)
    /\ file_out' = Some(dict_list)
    /\ pc' = "parse"
    /\ last' = "convert_csv_data_to_json"
    /\ UNCHANGED <<csv_file_in, row_idx, t_start, t_l_start, t_l_end, t_end,
                   dict_list, all_days, ret, exc, dayVars, histVars>>

\* all_days = parse_work_json_data('all_data.json')
ParseJson ==
    /\ pc = "parse"
    /\ LET r == parse_work_json_data(Val(file_out))
       IN  /\ all_days' = r.val
           /\ exc' = r.exc
           /\ pc' = IF r.exc = NoExc THEN "done" ELSE "failed"
    /\ last' = "parse_work_json_data"
    /\ UNCHANGED <<csv_file_in, row_idx, t_start, t_l_start, t_l_end, t_end,
                   dict_list, file_out, ret, dayVars, histVars>>

NextConvert == ConvertRow \/ WriteJson \/ ParseJson

\* the converter about to read its first row
ConvertStart ==
    /\ DayIdle /\ HistIdle
    /\ row_idx = 0
    /\ t_start = None /\ t_l_start = None /\ t_l_end = None /\ t_end = None
    /\ dict_list = << >>
    /\ pc = "convert"
    /\ file_out = None
    /\ all_days = None
    /\ last = "none" /\ ret = None /\ exc = NoExc

---------------------------------------------------------------------------
(* The batch run on an arbitrary CSV file *)

Labels == {"Work Start", "Lunch Start", "Lunch End", "Work End"}

\* the serial, hour and minute columns of the docstring's example rows
RowClock == {[hour |-> <<"9">>, minute |-> <<"3", "2">>],
             [hour |-> <<"1", "8">>, minute |-> <<"5", "0">>]}

Rows ==
    {[serial |-> <<"4", "3", "2", "7", "0">>, hour |-> c.hour, minute |-> c.minute,
      label |-> l] : c \in RowClock, l \in Labels}

CsvFiles == UNION {[1..n -> Rows] : n \in 0..MaxRows}

InitConvert == ConvertStart /\ csv_file_in \in CsvFiles

SpecConvert == InitConvert /\ [][NextConvert]_vars

---------------------------------------------------------------------------
(* The batch run on a CSV file of well-formed day-groups *)

GroupSerials == {<<"4", "3", "2", "7", "0">>, <<"4", "3", "8", "0", "0">>}

GroupClock == {[hour |-> <<"9">>, minute |-> <<"5">>],
               [hour |-> <<"1", "3">>, minute |-> <<"0">>],
               [hour |-> <<"1", "8">>, minute |-> <<"5", "0">>]}

ClockTime(c) == Time(PyInt(c.hour), PyInt(c.minute), 0)

GroupRow(serial, c, label) ==
    [serial |-> serial, hour |-> c.hour, minute |-> c.minute, label |-> label]

\* the four rows of one day, with start <= lunch start <= lunch end <= end
\* and start < end
Groups ==
    {<<GroupRow(g[1], g[2], "Work Start"), GroupRow(g[1], g[3], "Lunch Start"),
       GroupRow(g[1], g[4], "Lunch End"), GroupRow(g[1], g[5], "Work End")>> :
        g \in {x \in GroupSerials \X GroupClock \X GroupClock \X GroupClock \X GroupClock :
                 /\ ClockTime(x[2]) <= ClockTime(x[3])
                 /\ ClockTime(x[3]) <= ClockTime(x[4])
                 /\ ClockTime(x[4]) <= ClockTime(x[5])
                 /\ ClockTime(x[2]) < ClockTime(x[5])}}

RECURSIVE Concat(_)
Concat(groups) ==
    IF groups = << >> THEN << >>
    ELSE groups[1] \o Concat(SubSeq(groups, 2, Len(groups)))

GroupedCsvFiles == {Concat(gs) : gs \in UNION {[1..n -> Groups] : n \in 0..MaxGroups}}

InitRoundTrip == ConvertStart /\ csv_file_in \in GroupedCsvFiles

SpecRoundTrip == InitRoundTrip /\ [][NextConvert]_vars

---------------------------------------------------------------------------
(* Properties of WorkDay *)

\* the arguments of the last WorkDay(...) call
Args == Val(wd_args)

\* that call was given a tuple of exactly two lunch times
HasLunchPair == ~IsNone(Args.lunch_start_end) /\ Len(Val(Args.lunch_start_end)) = 2

LunchArg(i) == Val(Args.lunch_start_end)[i]

\* C1: constructing a WorkDay with end <= start raises the "End must come after
\* start" ValueError and constructs no object, whatever the lunch argument is
\* (absent, a pair inside or outside the day, a tuple of another length).
C1_EndBeforeStartAlwaysFails ==
    (~IsNone(wd_args) /\ Args.end <= Args.start)
        => (IsNone(wd) /\ exc = EndBeforeStart)

\* end == start together with a lunch tuple of the wrong length
C1_Witness ==
    /\ ~IsNone(wd_args)
    /\ Args.end = Args.start
    /\ ~IsNone(Args.lunch_start_end)
    /\ Len(Val(Args.lunch_start_end)) = 3
    /\ IsNone(wd)
    /\ exc = EndBeforeStart

\* the error the claimed order of checks selects for the last call's arguments
C2_Expected ==
    IF LunchArg(1) < Args.start THEN LunchBeforeDayStart
    ELSE IF LunchArg(1) > Args.end THEN LunchAfterDayEnd
    ELSE IF LunchArg(2) < LunchArg(1) THEN LunchEndBeforeLunchStart
    ELSE IF LunchArg(2) > Args.end THEN LunchEndAfterDayEnd
    ELSE NoExc

C7_LunchSeconds ==
    IF IsNone(Args.lunch_start_end) THEN 0 ELSE LunchArg(2) - LunchArg(1)

\* C7: for a constructed WorkDay, work_hours() is (end - start) minus
\* lunch_duration(), lunch_duration() is zero without lunch and
\* lunch_end - lunch_start otherwise, and the object keeps the fields it was
\* constructed with across both calls.
C7_WorkHoursIsSpanMinusLunch ==
    ~IsNone(wd) =>
        /\ Val(wd).date = Args.date
        /\ Val(wd).start = [date |-> Args.date, time |-> Args.start]
        /\ Val(wd).end = [date |-> Args.date, time |-> Args.end]
        /\ IsNone(Val(wd).lunch_start) <=> IsNone(Args.lunch_start_end)
        /\ IsNone(Val(wd).lunch_end) <=> IsNone(Args.lunch_start_end)
        /\ ~IsNone(Args.lunch_start_end) =>
              /\ Val(Val(wd).lunch_start) = [date |-> Args.date, time |-> LunchArg(1)]
              /\ Val(Val(wd).lunch_end) = [date |-> Args.date, time |-> LunchArg(2)]
        /\ last = "lunch_duration" =>
              ret = Some([seconds |-> C7_LunchSeconds, microseconds |-> 0])
        /\ last = "work_hours" =>
              ret = Some([seconds |-> (Args.end - Args.start) - C7_LunchSeconds,
                          microseconds |-> 0])

\* 09:15 to 17:30 with lunch 12:30 to 13:30: work_hours() returned 26100 s
C7_Witness ==
    /\ ~IsNone(wd)
    /\ last = "work_hours"
    /\ Args.start = 33300 /\ Args.end = 63000
    /\ Args.lunch_start_end = Some(<<45000, 48600>>)
    /\ ret = Some([seconds |-> 26100, microseconds |-> 0])

---------------------------------------------------------------------------
(* Properties of WorkHistory *)

Days == Val(hist).all_days

AveragedEmpty ==
    ~IsNone(hist) /\ Days = << >> /\ last = "average_work_duration"

\* C6 as claimed: average_work_duration() on an empty history fails with the
\* EmptyHistory / division-by-zero condition raised by an explicit guard for
\* the empty collection, and returns no value.
C6_RaisedByExplicitGuard ==
    AveragedEmpty =>
        /\ exc.type \in {"ZeroDivisionError", "EmptyHistory"}
        /\ exc.explicit
        /\ IsNone(ret)

\* C6 as amended: average_work_duration() on an empty history fails with the
\* ZeroDivisionError that the division by n_days itself raises (no statement
\* tests for the empty collection), and returns no value.
C6_EmptyHistoryDivisionFails ==
    AveragedEmpty =>
        /\ exc.type = "ZeroDivisionError"
        /\ ~exc.explicit
        /\ IsNone(ret)

C6_Witness ==
    /\ AveragedEmpty
    /\ exc = ZeroDivisionError
    /\ IsNone(ret)

\* whole seconds worked on a day, from its fields
C8_Seconds(day) ==
    (day.end.time - day.start.time)
    - (IF IsNone(day.lunch_start) THEN 0
       ELSE Val(day.lunch_end).time - Val(day.lunch_start).time)

\* the sum of C8_Seconds over days[1..n]
RECURSIVE C8_Sum(_, _)
C8_Sum(days, n) == IF n = 0 THEN 0 ELSE C8_Sum(days, n - 1) + C8_Seconds(days[n])

C8_Abs(x) == IF x < 0 THEN -x ELSE x

\* C8: on a non-empty history average_work_duration() is the sum of the days'
\* work durations divided by n_days, as a timedelta (the quotient to the
\* nearest microsecond): it depends on the sum only, not on the order, and N
\* days of the same duration D average to exactly D; n_days is the number of
\* days.
C8_AverageIsSumOverCount ==
    (~IsNone(hist) /\ Len(Days) >= 1) =>
        /\ last = "n_days" => ret = Some(Len(Days))
        /\ last = "average_work_duration" =>
              LET n   == Len(Days)
                  sum == C8_Sum(Days, n)
                  avg == Val(ret)
              IN  /\ exc = NoExc
                  /\ ~IsNone(ret)
                  /\ avg.seconds = sum \div n
                  /\ avg.microseconds \in 0..(MicrosPerSecond - 1)
                  /\ 2 * C8_Abs(n * avg.microseconds - (sum % n) * MicrosPerSecond) <= n
                  /\ (sum % n = 0) => avg.microseconds = 0
                  /\ (\A i \in 1..n : C8_Seconds(Days[i]) = C8_Seconds(Days[1]))
                        => avg = [seconds |-> C8_Seconds(Days[1]), microseconds |-> 0]

\* three days of different durations whose sum is no multiple of three
C8_Witness ==
    /\ ~IsNone(hist)
    /\ Len(Days) = 3
    /\ C8_Seconds(Days[1]) # C8_Seconds(Days[2])
    /\ C8_Sum(Days, 3) % 3 # 0
    /\ last = "average_work_duration"
    /\ ~IsNone(ret)

---------------------------------------------------------------------------
(* Properties of the batch run *)

\* row i of the CSV file ends a day-group: its label is none of the three others
IsEndRow(i) == csv_file_in[i].label \notin {"Work Start", "Lunch Start", "Lunch End"}

\* the number of group-ending rows among rows 1..n
RECURSIVE EndRows(_)
EndRows(n) == IF n = 0 THEN 0 ELSE EndRows(n - 1) + (IF IsEndRow(n) THEN 1 ELSE 0)

\* the first row of the day-group that row i belongs to
GroupFirst(i) ==
    LET ends == {j \in 1..(i - 1) : IsEndRow(j)}
    IN  IF ends = {} THEN 1 ELSE (CHOOSE j \in ends : \A k \in ends : k <= j) + 1

\* the last row with the given label in the group ending at row i, or 0
LastLabelled(label, i) ==
    LET at == {j \in GroupFirst(i)..(i - 1) : csv_file_in[j].label = label}
    IN  IF at = {} THEN 0 ELSE CHOOSE j \in at : \A k \in at : k <= j

\* a day entry carries exactly one of the two lunch keys
OneLunchKey(entry) ==
    ("lunch_start" \in DOMAIN entry) # ("lunch_end" \in DOMAIN entry)

\* C3 as claimed: a day entry with exactly one of lunch_start / lunch_end is
\* invalid, that is, loading a file that holds one raises an error instead of
\* returning WorkDay objects.
C3_OneLunchKeyRejected ==
    (pc \in {"done", "failed"} /\ \E i \in 1..Len(Val(file_out)) : OneLunchKey(Val(file_out)[i]))
        => (pc = "failed" /\ exc # NoExc /\ IsNone(all_days))

\* C4 as claimed: every day entry the converter emits has both lunch keys or
\* neither.
C4_LunchKeysTogether ==
    \A i \in 1..Len(dict_list) : ~OneLunchKey(dict_list[i])

\* C5 as claimed: when a group's end row is reached with the start slot unset,
\* the converter does not fail and emits an entry for the group that lacks the
\* start field.
C5_MissingStartStillEmitted ==
    \A i \in 1..row_idx :
        (IsEndRow(i) /\ LastLabelled("Work Start", i) = 0)
            => /\ pc # "crashed"
               /\ exc.type # "AttributeError"
               /\ Len(dict_list) >= EndRows(i)
               /\ "start" \notin DOMAIN dict_list[EndRows(i)]

\* the value entry e holds under key, when the group ending at row i has a row
\* with the given label, is the time of the last such row; without such a row
\* the key is absent
SlotFromOwnGroup(e, key, label, i) ==
    IF LastLabelled(label, i) = 0 THEN key \notin DOMAIN e
    ELSE /\ key \in DOMAIN e
         /\ e[key] = strftime_HM(RowTime(csv_file_in[LastLabelled(label, i)]))

\* C10 as claimed: for any sequence of rows the converter has emitted exactly
\* one entry per group-ending row consumed, in input order, all four slots are
\* unset after each emission, and each entry's date, start, lunch and end
\* values come from the rows of its own group.
C10_OneEntryPerEndRow ==
    /\ pc # "crashed"
    /\ Len(dict_list) = EndRows(row_idx)
    /\ (row_idx >= 1 /\ IsEndRow(row_idx))
          => (t_start = None /\ t_l_start = None /\ t_l_end = None /\ t_end = None)
    /\ \A i \in 1..row_idx :
          IsEndRow(i) =>
              LET e == dict_list[EndRows(i)]
              IN  /\ e["date"] = strftime_dmY(RowDate(csv_file_in[i]))
                  /\ e["end"] = strftime_HM(RowTime(csv_file_in[i]))
                  /\ SlotFromOwnGroup(e, "start", "Work Start", i)
                  /\ SlotFromOwnGroup(e, "lunch_start", "Lunch Start", i)
                  /\ SlotFromOwnGroup(e, "lunch_end", "Lunch End", i)

\* the number a string of decimal digits writes
C9_Number(str) ==
    LET Pow10(k) == CASE k = 0 -> 1 [] k = 1 -> 10 [] k = 2 -> 100
                      [] k = 3 -> 1000 [] k = 4 -> 10000
        RECURSIVE Upto(_)
        Upto(i) == IF i = 0 THEN 0
                   ELSE Upto(i - 1) + DigitValue(str[i]) * Pow10(Len(str) - i)
    IN  Upto(Len(str))

\* seconds after midnight that a row's hour and minute fields denote
C9_RowSeconds(row) == (C9_Number(row.hour) * 60 + C9_Number(row.minute)) * 60

=============================================================================
